---- MODULE Spec2Model ----
(***************************************************************************)
(* Model of zephyrus' command execution pipeline                           *)
(* (src/zephyrus/src/command.rs): the Command descriptor with its builder  *)
(* setters, Command::run_checks and Command::execute.                      *)
(*                                                                         *)
(* A call is one invocation of execute (or of the public run_checks) on    *)
(* the shared, immutable Command.  Every `.await` of a hook is a           *)
(* suspension point: a call advances by one action from one suspension     *)
(* point to the next.  What a hook returns is outside this code and is     *)
(* chosen nondeterministically when the hook returns.                      *)
(***************************************************************************)
EXTENDS Integers, Sequences, FiniteSets, TLC

\* ------------------------------------------------------------------ bounds
MaxChecks == 2        \* longest check list explored
MaxBuilderCalls == 3  \* longest chain of builder calls explored
NumCalls == 2         \* concurrent calls on the one Command

Calls == 1 .. NumCalls

\* ------------------------------------------------- values of the type params
TValues == {42, 7}                              \* T: success values
EValues == {"rate-limited", "db-timeout"}       \* E: failure values
CheckHooks == {"check_a", "check_b"}            \* CheckHook fn pointers
ErrorHooks == {"on_error", "on_error_b"}        \* ErrorHandlerHook fn pointers
Names == {"ping"}                               \* &'static str names
Descriptions == {"Replies with pong"}           \* &'static str descriptions
Arguments == {"arg_a", "arg_b"}                 \* CommandArgument<D> values
PermissionsValues == {"ADMINISTRATOR"}          \* Permissions values

\* Result<_, E>
Ok(v) == [tag |-> "Ok", val |-> v]
Err(e) == [tag |-> "Err", val |-> e]
IsOk(r) == r.tag = "Ok"
IsErr(r) == r.tag = "Err"

\* what a check hook can return: Result<bool, E>
CheckResults == {Ok(TRUE), Ok(FALSE)} \cup {Err(e) : e \in EValues}
\* what the command function can return: Result<T, E>
FunResults == {Ok(v) : v \in TValues} \cup {Err(e) : e \in EValues}

\* Option<_>
None == [some |-> FALSE, val |-> "none"]
Some(x) == [some |-> TRUE, val |-> x]

\* a local that `let x;` has declared and no branch has assigned yet
Unset == "unset"
UnsetLocation == [loc |-> "unset"]
UnsetResult == [tag |-> "unset", val |-> "unset"]

\* enum ExecutionState
ExecutionState ==
    {"CheckErrored", "CheckFailed", "CommandFinished", "CommandErrored",
     "BeforeHookFailed"}

\* enum OutputLocation<T, E>
NotExecuted == [loc |-> "NotExecuted"]
Present(r) == [loc |-> "Present", res |-> r]
TakenByAfterHook == [loc |-> "TakenByAfterHook"]
TakenByErrorHandlerHook == [loc |-> "TakenByErrorHandlerHook"]

\* struct ExecutionResult<T, E>
ExecutionResult(s, l) == [state |-> s, output |-> l]
NotReturned == ExecutionResult(Unset, UnsetLocation)

\* ------------------------------------------------------------ the builder
\* Command::new
new(fun) ==
    [name |-> "", description |-> "", arguments |-> <<>>, fun |-> fun,
     required_permissions |-> None, checks |-> <<>>, error_handler |-> None]

\* Command::name
name(self, n) == [self EXCEPT !.name = n]

\* Command::description
description(self, d) == [self EXCEPT !.description = d]

\* add_argument putting the new argument first.
add_argument_Prepends(self, arg) == [self EXCEPT !.arguments = <<arg>> \o @]

\* Command::add_argument
add_argument(self, arg) == [self EXCEPT !.arguments = Append(@, arg)]

\* checks extending the list it should replace.
checks_Appends(self, cs) == [self EXCEPT !.checks = @ \o cs]

\* Command::checks
checks(self, cs) == [self EXCEPT !.checks = cs]

\* Command::error_handler
error_handler(self, hook) == [self EXCEPT !.error_handler = Some(hook)]

\* Command::required_permissions
required_permissions(self, p) ==
    [self EXCEPT !.required_permissions = Some(p)]

\* --------------------------------------------------------------- the state
VARIABLES
    command,        \* the Command (`self`), shared by every call
    kind,           \* kind[c]: which pub async fn call c is ("execute", "run_checks")
    pc,             \* pc[c]: where call c stands (the hook it awaits)
    check_idx,      \* check_idx[c]: position of the `for check in &self.checks` iterator
    checks_result,  \* checks_result[c]: what run_checks returned
    output,         \* output[c]: execute's local `output`, what (self.fun) returned
    state,          \* state[c]: execute's local `state`
    location,       \* location[c]: execute's local `location`
    returned,       \* returned[c]: the ExecutionResult execute returned
    trace,          \* trace[c]: hook invocations and returns of call c, in order
    history         \* the builder calls made on the Command since new, in order

vars == <<command, kind, pc, check_idx, checks_result, output, state,
          location, returned, trace, history>>

\* a builder call: which setter, with which argument
BuilderCall(setter, arg) == [setter |-> setter, arg |-> arg]

\* events of trace: a hook is called, a hook returns
CallCheck(k) == [ev |-> "call", hook |-> "check", idx |-> k]
RetCheck(k, r) == [ev |-> "ret", hook |-> "check", idx |-> k, res |-> r]
CallFun == [ev |-> "call", hook |-> "fun", idx |-> 0]
RetFun(r) == [ev |-> "ret", hook |-> "fun", idx |-> 0, res |-> r]
CallHandler(why) ==
    [ev |-> "call", hook |-> "error_handler", idx |-> 0, arg |-> why]
RetHandler == [ev |-> "ret", hook |-> "error_handler", idx |-> 0]

\* ----------------------------------------------------- the initial states
\* check lists of length 0 .. MaxChecks
CheckLists ==
    UNION {[1 .. n -> CheckHooks] : n \in 0 .. MaxChecks}

\* One check list of each length, its hooks alternating.  run_checks calls a
\* hook through its pointer and never looks at which hook it is, and what the
\* hook returns is chosen freely at every call, so one list per length shows
\* every run of that length.
AlternatingChecks(n) ==
    [k \in 1 .. n |-> IF k % 2 = 1 THEN "check_a" ELSE "check_b"]

\* The commands a builder chain new(fun).checks(cs)[.error_handler(h)] makes.
\* execute only asks whether a handler is set and calls it through its
\* pointer, so one handler stands for all of them.
BuiltCommands ==
    LET withChecks ==
            {checks(new("fun"), AlternatingChecks(n)) : n \in 0 .. MaxChecks}
    IN  withChecks \cup
        {error_handler(cmd, h) : cmd \in withChecks, h \in {"on_error"}}

\* the builder chain that made a command of BuiltCommands
ChainOf(cmd) ==
    <<BuilderCall("checks", cmd.checks)>> \o
    (IF cmd.error_handler.some
     THEN <<BuilderCall("error_handler", cmd.error_handler.val)>>
     ELSE <<>>)

\* no call has started
CallsIdle ==
    /\ kind = [c \in Calls |-> "none"]
    /\ pc = [c \in Calls |-> "idle"]
    /\ check_idx = [c \in Calls |-> 0]
    /\ checks_result = [c \in Calls |-> UnsetResult]
    /\ output = [c \in Calls |-> UnsetResult]
    /\ state = [c \in Calls |-> Unset]
    /\ location = [c \in Calls |-> UnsetLocation]
    /\ returned = [c \in Calls |-> NotReturned]
    /\ trace = [c \in Calls |-> <<>>]

\* A command fresh from Command::new, no builder call made yet.
InitBuild ==
    /\ command = new("fun")
    /\ history = <<>>
    /\ CallsIdle

Init ==
    /\ command \in BuiltCommands
    /\ history = ChainOf(command)
    /\ kind = [c \in Calls |-> "none"]
    /\ pc = [c \in Calls |-> "idle"]
    /\ check_idx = [c \in Calls |-> 0]
    /\ checks_result = [c \in Calls |-> UnsetResult]
    /\ output = [c \in Calls |-> UnsetResult]
    /\ state = [c \in Calls |-> Unset]
    /\ location = [c \in Calls |-> UnsetLocation]
    /\ returned = [c \in Calls |-> NotReturned]
    /\ trace = [c \in Calls |-> <<>>]

\* ------------------------------------------------------------- run_checks
\* CheckStep with the `return Ok(false)` lost: a false check lets the loop go on.
CheckStep_NoShortCircuit(r) ==
    IF IsErr(r) THEN [ret |-> TRUE, val |-> r]
    ELSE [ret |-> FALSE, val |-> Ok(TRUE)]

\* CheckStep with the error of `?` swallowed into a soft failure.
CheckStep_SwallowsError(r) ==
    IF IsErr(r) THEN [ret |-> TRUE, val |-> Ok(FALSE)]
    ELSE IF ~r.val THEN [ret |-> TRUE, val |-> Ok(FALSE)]
    ELSE [ret |-> FALSE, val |-> Ok(TRUE)]

\* What the loop body of run_checks does with the value a check returned:
\* `?` returns an error, `!ok` returns Ok(false), otherwise the loop goes on.
CheckStep(r) ==
    IF IsErr(r) THEN [ret |-> TRUE, val |-> r]
    ELSE IF ~r.val THEN [ret |-> TRUE, val |-> Ok(FALSE)]
    ELSE [ret |-> FALSE, val |-> Ok(TRUE)]

\* ---------------------------------------------------------------- execute
\* MatchChecks with the first arm written Ok(_): a soft failure runs the command.
MatchChecks_RunsOnSoftFail(self, rc) ==
    IF IsOk(rc)
    THEN [next |-> "fun", state |-> Unset, location |-> UnsetLocation,
          why |-> "none"]
    ELSE IF self.error_handler.some
         THEN [next |-> "handler", state |-> "CheckErrored",
               location |-> UnsetLocation, why |-> rc.val]
         ELSE [next |-> "return", state |-> "CheckErrored",
               location |-> Present(Err(rc.val)), why |-> "none"]

\* MatchChecks with the handler call of the Err arm lost.
MatchChecks_SkipsHandler(self, rc) ==
    IF IsOk(rc) /\ rc.val
    THEN [next |-> "fun", state |-> Unset, location |-> UnsetLocation,
          why |-> "none"]
    ELSE IF IsErr(rc)
    THEN IF self.error_handler.some
         THEN [next |-> "return", state |-> "CheckErrored",
               location |-> TakenByErrorHandlerHook, why |-> "none"]
         ELSE [next |-> "return", state |-> "CheckErrored",
               location |-> Present(Err(rc.val)), why |-> "none"]
    ELSE [next |-> "return", state |-> "CheckFailed",
          location |-> NotExecuted, why |-> "none"]

\* MatchChecks discarding the error when there is no handler.
MatchChecks_DiscardsError(self, rc) ==
    IF IsOk(rc) /\ rc.val
    THEN [next |-> "fun", state |-> Unset, location |-> UnsetLocation,
          why |-> "none"]
    ELSE IF IsErr(rc)
    THEN IF self.error_handler.some
         THEN [next |-> "handler", state |-> "CheckErrored",
               location |-> UnsetLocation, why |-> rc.val]
         ELSE [next |-> "return", state |-> "CheckErrored",
               location |-> NotExecuted, why |-> "none"]
    ELSE [next |-> "return", state |-> "CheckFailed",
          location |-> NotExecuted, why |-> "none"]

\* MatchChecks reporting a soft failure with the state of the `before` hook.
MatchChecks_BeforeHookState(self, rc) ==
    IF IsOk(rc) /\ rc.val
    THEN [next |-> "fun", state |-> Unset, location |-> UnsetLocation,
          why |-> "none"]
    ELSE IF IsErr(rc)
    THEN IF self.error_handler.some
         THEN [next |-> "handler", state |-> "CheckErrored",
               location |-> UnsetLocation, why |-> rc.val]
         ELSE [next |-> "return", state |-> "CheckErrored",
               location |-> Present(Err(rc.val)), why |-> "none"]
    ELSE [next |-> "return", state |-> "BeforeHookFailed",
          location |-> NotExecuted, why |-> "none"]

\* MatchChecks classifying a soft failure as a check error.
MatchChecks_SoftFailErrored(self, rc) ==
    IF IsOk(rc) /\ rc.val
    THEN [next |-> "fun", state |-> Unset, location |-> UnsetLocation,
          why |-> "none"]
    ELSE IF IsErr(rc)
    THEN IF self.error_handler.some
         THEN [next |-> "handler", state |-> "CheckErrored",
               location |-> UnsetLocation, why |-> rc.val]
         ELSE [next |-> "return", state |-> "CheckErrored",
               location |-> Present(Err(rc.val)), why |-> "none"]
    ELSE [next |-> "return", state |-> "CheckErrored",
          location |-> NotExecuted, why |-> "none"]

\* The arms of `match self.run_checks(context).await` up to their first await
\* (or to the end of the match): what runs next, and the locals assigned.
MatchChecks(self, rc) ==
    IF IsOk(rc) /\ rc.val
    THEN [next |-> "fun", state |-> Unset, location |-> UnsetLocation,
          why |-> "none"]
    ELSE IF IsErr(rc)
    THEN IF self.error_handler.some
         THEN [next |-> "handler", state |-> "CheckErrored",
               location |-> UnsetLocation, why |-> rc.val]
         ELSE [next |-> "return", state |-> "CheckErrored",
               location |-> Present(Err(rc.val)), why |-> "none"]
    ELSE [next |-> "return", state |-> "CheckFailed",
          location |-> NotExecuted, why |-> "none"]

\* MatchOutput ignoring the configured handler: the error stays in the result.
MatchOutput_IgnoresHandler(self, out) ==
    IF IsOk(out)
    THEN [next |-> "return", state |-> "CommandFinished",
          location |-> Present(Ok(out.val)), why |-> "none"]
    ELSE [next |-> "return", state |-> "CommandErrored",
          location |-> Present(Err(out.val)), why |-> "none"]

\* MatchOutput with the states of the Ok arm and the last arm exchanged.
MatchOutput_StatesSwapped(self, out) ==
    IF self.error_handler.some /\ IsErr(out)
    THEN [next |-> "handler", state |-> "CommandErrored",
          location |-> TakenByErrorHandlerHook, why |-> out.val]
    ELSE IF IsOk(out)
    THEN [next |-> "return", state |-> "CommandErrored",
          location |-> Present(Ok(out.val)), why |-> "none"]
    ELSE [next |-> "return", state |-> "CommandFinished",
          location |-> Present(Err(out.val)), why |-> "none"]

\* MatchOutput handing the error to the handler and to the caller as well.
MatchOutput_HandlerAndPresent(self, out) ==
    IF self.error_handler.some /\ IsErr(out)
    THEN [next |-> "handler", state |-> "CommandErrored",
          location |-> Present(Err(out.val)), why |-> out.val]
    ELSE IF IsOk(out)
    THEN [next |-> "return", state |-> "CommandFinished",
          location |-> Present(Ok(out.val)), why |-> "none"]
    ELSE [next |-> "return", state |-> "CommandErrored",
          location |-> Present(Err(out.val)), why |-> "none"]

\* MatchOutput calling the error handler on a success as well.
MatchOutput_HandlerOnSuccess(self, out) ==
    IF self.error_handler.some
    THEN [next |-> "handler", state |-> "CommandErrored",
          location |-> TakenByErrorHandlerHook, why |-> "none"]
    ELSE IF IsOk(out)
    THEN [next |-> "return", state |-> "CommandFinished",
          location |-> Present(Ok(out.val)), why |-> "none"]
    ELSE [next |-> "return", state |-> "CommandErrored",
          location |-> Present(Err(out.val)), why |-> "none"]

\* MatchOutput reporting an error the handler took as a finished command.
MatchOutput_HandledIsFinished(self, out) ==
    IF self.error_handler.some /\ IsErr(out)
    THEN [next |-> "handler", state |-> "CommandFinished",
          location |-> TakenByErrorHandlerHook, why |-> out.val]
    ELSE IF IsOk(out)
    THEN [next |-> "return", state |-> "CommandFinished",
          location |-> Present(Ok(out.val)), why |-> "none"]
    ELSE [next |-> "return", state |-> "CommandErrored",
          location |-> Present(Err(out.val)), why |-> "none"]

\* The arms of `match (&self.error_handler, output)` up to their first await.
MatchOutput(self, out) ==
    IF self.error_handler.some /\ IsErr(out)
    THEN [next |-> "handler", state |-> "CommandErrored",
          location |-> TakenByErrorHandlerHook, why |-> out.val]
    ELSE IF IsOk(out)
    THEN [next |-> "return", state |-> "CommandFinished",
          location |-> Present(Ok(out.val)), why |-> "none"]
    ELSE [next |-> "return", state |-> "CommandErrored",
          location |-> Present(Err(out.val)), why |-> "none"]

\* run_checks of call c returns rc, t being the call's trace so far.  A bare
\* run_checks call ends here; in execute the match on the returned value runs
\* up to its next await, or to the end of execute.
RunChecksReturns(c, rc, t) ==
    /\ checks_result' = [checks_result EXCEPT ![c] = rc]
    /\ IF kind[c] = "run_checks"
       THEN /\ pc' = [pc EXCEPT ![c] = "done"]
            /\ trace' = [trace EXCEPT ![c] = t]
            /\ UNCHANGED <<state, location, returned>>
       ELSE LET m == MatchChecks(command, rc) IN
            /\ state' = [state EXCEPT ![c] = m.state]
            /\ location' = [location EXCEPT ![c] = m.location]
            /\ CASE m.next = "fun" ->
                      /\ pc' = [pc EXCEPT ![c] = "await_fun"]
                      /\ trace' = [trace EXCEPT ![c] = Append(t, CallFun)]
                      /\ UNCHANGED returned
                 [] m.next = "handler" ->
                      /\ pc' = [pc EXCEPT ![c] = "await_handler_check"]
                      /\ trace' = [trace EXCEPT
                                     ![c] = Append(t, CallHandler(m.why))]
                      /\ UNCHANGED returned
                 [] m.next = "return" ->
                      /\ pc' = [pc EXCEPT ![c] = "done"]
                      /\ trace' = [trace EXCEPT ![c] = t]
                      /\ returned' = [returned EXCEPT
                            ![c] = ExecutionResult(m.state, m.location)]

\* A caller calls execute: it calls run_checks, which starts its loop.
Execute(c) ==
    /\ pc[c] = "idle"
    /\ kind' = [kind EXCEPT ![c] = "execute"]
    /\ pc' = [pc EXCEPT ![c] = "run_checks"]
    /\ UNCHANGED <<command, history, check_idx, checks_result, output, state,
                   location, returned, trace>>

\* A caller calls the public run_checks on its own.
RunChecks(c) ==
    /\ pc[c] = "idle"
    /\ kind' = [kind EXCEPT ![c] = "run_checks"]
    /\ pc' = [pc EXCEPT ![c] = "run_checks"]
    /\ UNCHANGED <<command, history, check_idx, checks_result, output, state,
                   location, returned, trace>>

\* InvokeCheck walking the list from its end (`.iter().rev()`).
InvokeCheck_Reversed(c) ==
    /\ pc[c] = "run_checks"
    /\ check_idx[c] < Len(command.checks)
    /\ pc' = [pc EXCEPT ![c] = "await_check"]
    /\ trace' = [trace EXCEPT
          ![c] = Append(@, CallCheck(Len(command.checks) - 1 - check_idx[c]))]
    /\ UNCHANGED <<command, history, kind, check_idx, checks_result, output,
                   state, location, returned>>

\* The loop takes the next check and calls it.
InvokeCheck(c) ==
    /\ pc[c] = "run_checks"
    /\ check_idx[c] < Len(command.checks)
    /\ pc' = [pc EXCEPT ![c] = "await_check"]
    /\ trace' = [trace EXCEPT ![c] = Append(@, CallCheck(check_idx[c]))]
    /\ UNCHANGED <<command, history, kind, check_idx, checks_result, output, state,
                   location, returned>>

\* The awaited check returns r.
CheckReturns(c, r) ==
    /\ pc[c] = "await_check"
    /\ LET s == CheckStep(r)
           t == Append(trace[c], RetCheck(check_idx[c], r))
       IN  IF s.ret
           THEN /\ RunChecksReturns(c, s.val, t)
                /\ UNCHANGED <<command, history, kind, check_idx, output>>
           ELSE /\ check_idx' = [check_idx EXCEPT ![c] = @ + 1]
                /\ pc' = [pc EXCEPT ![c] = "run_checks"]
                /\ trace' = [trace EXCEPT ![c] = t]
                /\ UNCHANGED <<command, history, kind, checks_result, output, state,
                               location, returned>>

\* ChecksPassed with the test for the end of the list off by one: the loop
\* is never left.
ChecksPassed_OffByOne(c) ==
    /\ pc[c] = "run_checks"
    /\ check_idx[c] > Len(command.checks)
    /\ RunChecksReturns(c, Ok(TRUE), trace[c])
    /\ UNCHANGED <<command, history, kind, check_idx, output>>

\* ChecksPassed leaving the loop while checks are left to run.
ChecksPassed_Early(c) ==
    /\ pc[c] = "run_checks"
    /\ RunChecksReturns(c, Ok(TRUE), trace[c])
    /\ UNCHANGED <<command, history, kind, check_idx, output>>

\* The loop has no check left: run_checks returns Ok(true).
ChecksPassed(c) ==
    /\ pc[c] = "run_checks"
    /\ check_idx[c] >= Len(command.checks)
    /\ RunChecksReturns(c, Ok(TRUE), trace[c])
    /\ UNCHANGED <<command, history, kind, check_idx, output>>

\* FunReturns keeping `state` where every call sees it (a field of the shared
\* Command instead of a local of the call).
FunReturns_SharedState(c, r) ==
    /\ pc[c] = "await_fun"
    /\ output' = [output EXCEPT ![c] = r]
    /\ LET m == MatchOutput(command, r)
           t == Append(trace[c], RetFun(r))
       IN  /\ state' = [d \in Calls |-> m.state]
           /\ location' = [location EXCEPT ![c] = m.location]
           /\ IF m.next = "handler"
              THEN /\ pc' = [pc EXCEPT ![c] = "await_handler_fun"]
                   /\ trace' = [trace EXCEPT
                                  ![c] = Append(t, CallHandler(m.why))]
                   /\ UNCHANGED returned
              ELSE /\ pc' = [pc EXCEPT ![c] = "done"]
                   /\ trace' = [trace EXCEPT ![c] = t]
                   /\ returned' = [returned EXCEPT
                         ![c] = ExecutionResult(m.state, m.location)]
    /\ UNCHANGED <<command, history, kind, check_idx, checks_result>>

\* The awaited command function returns r.
FunReturns(c, r) ==
    /\ pc[c] = "await_fun"
    /\ output' = [output EXCEPT ![c] = r]
    /\ LET m == MatchOutput(command, r)
           t == Append(trace[c], RetFun(r))
       IN  /\ state' = [state EXCEPT ![c] = m.state]
           /\ location' = [location EXCEPT ![c] = m.location]
           /\ IF m.next = "handler"
              THEN /\ pc' = [pc EXCEPT ![c] = "await_handler_fun"]
                   /\ trace' = [trace EXCEPT
                                  ![c] = Append(t, CallHandler(m.why))]
                   /\ UNCHANGED returned
              ELSE /\ pc' = [pc EXCEPT ![c] = "done"]
                   /\ trace' = [trace EXCEPT ![c] = t]
                   /\ returned' = [returned EXCEPT
                         ![c] = ExecutionResult(m.state, m.location)]
    /\ UNCHANGED <<command, history, kind, check_idx, checks_result>>

\* AfterHandler naming the wrong hook in the check arm.
AfterHandler_AfterHook(at, loc) ==
    IF at = "await_handler_check" THEN TakenByAfterHook ELSE loc

\* The location execute holds once the awaited error handler has returned:
\* the check arm assigns it after the await, the command arm did so before.
AfterHandler(at, loc) ==
    IF at = "await_handler_check" THEN TakenByErrorHandlerHook ELSE loc

\* The awaited error handler returns; execute returns its ExecutionResult.
HandlerReturns(c) ==
    /\ pc[c] \in {"await_handler_check", "await_handler_fun"}
    /\ LET l == AfterHandler(pc[c], location[c]) IN
       /\ location' = [location EXCEPT ![c] = l]
       /\ returned' = [returned EXCEPT ![c] = ExecutionResult(state[c], l)]
    /\ pc' = [pc EXCEPT ![c] = "done"]
    /\ trace' = [trace EXCEPT ![c] = Append(@, RetHandler)]
    /\ UNCHANGED <<command, history, kind, check_idx, checks_result, output, state>>

\* ------------------------------------------- execute, run on its own
\* execute read as the sequential function it is: what one call does when
\* nothing else runs, given the values rets its hooks return, in order.  The
\* result is the call's trace up to the await at which rets runs out, and the
\* ExecutionResult if the call got to its end.
SoloAwaiting(t) == [trace |-> t, result |-> NotReturned]

\* the awaited error handler (command.rs:146, 165)
SoloHandler(st, loc, rets, t) ==
    IF Len(rets) = 0 THEN SoloAwaiting(t)
    ELSE [trace |-> Append(t, RetHandler),
          result |-> ExecutionResult(st, loc)]

\* the awaited command function and the match on its output
SoloFun(self, rets, t) ==
    IF Len(rets) = 0 THEN SoloAwaiting(t)
    ELSE LET r == Head(rets).res
             m == MatchOutput(self, r)
             t2 == Append(t, RetFun(r))
         IN  IF m.next = "handler"
             THEN SoloHandler(m.state,
                              AfterHandler("await_handler_fun", m.location),
                              Tail(rets), Append(t2, CallHandler(m.why)))
             ELSE [trace |-> t2,
                   result |-> ExecutionResult(m.state, m.location)]

\* the match on what run_checks returned
SoloMatch(self, rc, rets, t) ==
    LET m == MatchChecks(self, rc) IN
    CASE m.next = "fun" -> SoloFun(self, rets, Append(t, CallFun))
      [] m.next = "handler" ->
            SoloHandler(m.state,
                        AfterHandler("await_handler_check", m.location),
                        rets, Append(t, CallHandler(m.why)))
      [] m.next = "return" ->
            [trace |-> t, result |-> ExecutionResult(m.state, m.location)]

\* the loop of run_checks from its k-th check on
RECURSIVE SoloChecks(_, _, _, _)
SoloChecks(self, k, rets, t) ==
    IF k >= Len(self.checks) THEN SoloMatch(self, Ok(TRUE), rets, t)
    ELSE LET t1 == Append(t, CallCheck(k)) IN
         IF Len(rets) = 0 THEN SoloAwaiting(t1)
         ELSE LET r == Head(rets).res
                  t2 == Append(t1, RetCheck(k, r))
                  s == CheckStep(r)
              IN  IF s.ret THEN SoloMatch(self, s.val, Tail(rets), t2)
                  ELSE SoloChecks(self, k + 1, Tail(rets), t2)

SoloExecute(self, rets) == SoloChecks(self, 0, rets, <<>>)

Next ==
    \E c \in Calls :
        \/ Execute(c)
        \/ RunChecks(c)
        \/ InvokeCheck(c)
        \/ \E r \in CheckResults : CheckReturns(c, r)
        \/ ChecksPassed(c)
        \/ \E r \in FunResults : FunReturns(c, r)
        \/ HandlerReturns(c)

Spec == Init /\ [][Next]_vars

\* ------------------------------------------------- the builder, as actions
\* A setter takes the Command by value (`mut self`): it can run only while no
\* call borrows the Command.
CanBuild ==
    /\ Len(history) < MaxBuilderCalls
    /\ \A c \in Calls : pc[c] \in {"idle", "done"}

\* what a builder call leaves alone: every call's state
CallVars ==
    <<kind, pc, check_idx, checks_result, output, state, location, returned,
      trace>>

SetName(n) ==
    /\ CanBuild
    /\ command' = name(command, n)
    /\ history' = Append(history, BuilderCall("name", n))
    /\ UNCHANGED CallVars

SetDescription(d) ==
    /\ CanBuild
    /\ command' = description(command, d)
    /\ history' = Append(history, BuilderCall("description", d))
    /\ UNCHANGED CallVars

AddArgument(arg) ==
    /\ CanBuild
    /\ command' = add_argument(command, arg)
    /\ history' = Append(history, BuilderCall("add_argument", arg))
    /\ UNCHANGED CallVars

SetChecks(cs) ==
    /\ CanBuild
    /\ command' = checks(command, cs)
    /\ history' = Append(history, BuilderCall("checks", cs))
    /\ UNCHANGED CallVars

SetErrorHandler(hook) ==
    /\ CanBuild
    /\ command' = error_handler(command, hook)
    /\ history' = Append(history, BuilderCall("error_handler", hook))
    /\ UNCHANGED CallVars

SetRequiredPermissions(p) ==
    /\ CanBuild
    /\ command' = required_permissions(command, p)
    /\ history' = Append(history, BuilderCall("required_permissions", p))
    /\ UNCHANGED CallVars

NextBuild ==
    \/ \E n \in Names : SetName(n)
    \/ \E d \in Descriptions : SetDescription(d)
    \/ \E arg \in Arguments : AddArgument(arg)
    \/ \E cs \in CheckLists : SetChecks(cs)
    \/ \E hook \in ErrorHooks : SetErrorHandler(hook)
    \/ \E p \in PermissionsValues : SetRequiredPermissions(p)

SpecBuild == InitBuild /\ [][NextBuild]_vars

\* ================================================================ properties
\* ---- what a call's trace says
IsCall(e, h) == e.ev = "call" /\ e.hook = h
IsRet(e, h) == e.ev = "ret" /\ e.hook = h

\* positions of trace[c] at which hook h is called
Invocations(c, h) == {j \in DOMAIN trace[c] : IsCall(trace[c][j], h)}
\* positions at which the k-th check (0-indexed) is called
CheckInvocations(c, k) ==
    {j \in Invocations(c, "check") : trace[c][j].idx = k}
FunCalls(c) == Cardinality(Invocations(c, "fun"))
HandlerCalls(c) == Cardinality(Invocations(c, "error_handler"))
\* the handler has been called with the failure value e
HandlerCalledWith(c, e) ==
    \E j \in Invocations(c, "error_handler") : trace[c][j].arg = e

\* a check result other than Ok(true)
NotTrue(r) == ~(IsOk(r) /\ r.val)
\* positions at which a check returns
CheckReturnsAt(c) == {j \in DOMAIN trace[c] : IsRet(trace[c][j], "check")}
\* positions at which a check returns false or an error
NotTrueAt(c) == {j \in CheckReturnsAt(c) : NotTrue(trace[c][j].res)}
\* every check of the list has returned true
AllChecksTrue(c) ==
    \A k \in 0 .. Len(command.checks) - 1 :
        \E j \in CheckReturnsAt(c) :
            trace[c][j].idx = k /\ ~NotTrue(trace[c][j].res)
\* the first check that does not return true returns r
FirstNotTrueIs(c, r) ==
    \E j \in NotTrueAt(c) :
        /\ \A m \in NotTrueAt(c) : j <= m
        /\ trace[c][j].res.tag = r.tag
        /\ trace[c][j].res.val = r.val
\* positions at which the command function returns
FunReturnsAt(c) == {j \in DOMAIN trace[c] : IsRet(trace[c][j], "fun")}
\* positions at which a hook produces a failure value
FailuresAt(c) ==
    {j \in CheckReturnsAt(c) \cup FunReturnsAt(c) : IsErr(trace[c][j].res)}

\* call c is an execute call that has returned its ExecutionResult
Returned(c) == kind[c] = "execute" /\ pc[c] = "done"
\* call c's run_checks has returned
ChecksReturned(c) == checks_result[c].tag # "unset"
IsPresent(l) == l.loc = "Present"
IsPresentErr(l, e) == l.loc = "Present" /\ IsErr(l.res) /\ l.res.val = e
IsPresentOk(l, v) == l.loc = "Present" /\ IsOk(l.res) /\ l.res.val = v

\* C1: once the k-th check of a call (execute or run_checks) has returned
\* false or an error, no check after the k-th is ever invoked in that call.
C1_ShortCircuit ==
    \A c \in Calls : \A j \in NotTrueAt(c) :
        \A k \in 0 .. Len(command.checks) - 1 :
            k > trace[c][j].idx => CheckInvocations(c, k) = {}

\* a finished call whose first check failed (softly or hard) with checks left
C1_Witness ==
    \E c \in Calls :
        /\ pc[c] = "done"
        /\ \E j \in NotTrueAt(c) : trace[c][j].idx + 1 < Len(command.checks)

\* C2: a call of execute invokes the entry point at most once; not at all once
\* a check has returned false or an error; and exactly once by the time it
\* returns when every check returned true (an empty list included).
C2_EntryPointOnce ==
    \A c \in Calls :
        /\ FunCalls(c) <= 1
        /\ NotTrueAt(c) # {} => FunCalls(c) = 0
        /\ Returned(c) /\ AllChecksTrue(c) => FunCalls(c) = 1
        /\ Returned(c) /\ FunCalls(c) = 1 => AllChecksTrue(c)

\* an execute call with a non-empty check list returned after running fun
\* while another one was stopped by a check
C2_Witness ==
    \E c, d \in Calls :
        /\ Returned(c) /\ Len(command.checks) > 0 /\ FunCalls(c) = 1
        /\ Returned(d) /\ NotTrueAt(d) # {} /\ FunCalls(d) = 0

C5_CommandSuccess ==
    \A c \in Calls : \A j \in FunReturnsAt(c) :
        IsOk(trace[c][j].res) =>
            /\ HandlerCalls(c) = 0
            /\ Returned(c)
            /\ returned[c].state = "CommandFinished"
            /\ IsPresentOk(returned[c].output, trace[c][j].res.val)

\* an execute call with a handler configured returned a success
C5_Witness ==
    \E c \in Calls : \E j \in FunReturnsAt(c) :
        /\ Returned(c) /\ IsOk(trace[c][j].res)
        /\ command.error_handler.some

\* C6: when the first check not returning true returned false, execute returns
\* state CheckFailed and output NotExecuted, and neither the entry point nor
\* the error handler is invoked in that call.
C6_SoftFailure ==
    \A c \in Calls :
        kind[c] = "execute" /\ FirstNotTrueIs(c, Ok(FALSE)) =>
            /\ FunCalls(c) = 0
            /\ HandlerCalls(c) = 0
            /\ Returned(c)
            /\ returned[c].state = "CheckFailed"
            /\ returned[c].output = NotExecuted

\* an execute call with a handler configured was stopped by a false check
C6_Witness ==
    \E c \in Calls :
        /\ Returned(c) /\ FirstNotTrueIs(c, Ok(FALSE))
        /\ command.error_handler.some

\* C7 as stated: in every ExecutionResult execute returns, output is
\* Present(_) if and only if the error handler was not invoked in that call.
C7_PresentIffNoHandler ==
    \A c \in Calls :
        Returned(c) =>
            (IsPresent(returned[c].output) <=> HandlerCalls(c) = 0)

\* C7, amended: in every ExecutionResult execute returns, output is Present(_)
\* if and only if the error handler was not invoked in that call and the call
\* did not end in a soft check failure (state CheckFailed), where output is
\* NotExecuted although no handler was invoked.
C7_PresentIffNoHandlerAndExecuted ==
    \A c \in Calls :
        Returned(c) =>
            /\ IsPresent(returned[c].output) <=>
                   (HandlerCalls(c) = 0 /\ returned[c].state # "CheckFailed")
            /\ returned[c].state = "CheckFailed" =>
                   (returned[c].output = NotExecuted /\ HandlerCalls(c) = 0)

\* with a handler configured, one execute call returned a result the handler
\* took and another one a soft check failure
C7_Witness ==
    \E c, d \in Calls :
        /\ Returned(c) /\ HandlerCalls(c) = 1
        /\ returned[c].output = TakenByErrorHandlerHook
        /\ Returned(d) /\ returned[d].state = "CheckFailed"

\* C8: in every ExecutionResult execute returns, state is CommandFinished if
\* and only if output is Present(Ok(_)).
C8_FinishedIffPresentOk ==
    \A c \in Calls :
        Returned(c) =>
            (returned[c].state = "CommandFinished" <=>
                 (IsPresent(returned[c].output) /\ IsOk(returned[c].output.res)))

\* one execute call returned Present(Ok(_)) and another one Present(Err(_))
C8_Witness ==
    \E c, d \in Calls :
        /\ Returned(c) /\ returned[c].state = "CommandFinished"
        /\ Returned(d) /\ IsPresent(returned[d].output)
        /\ IsErr(returned[d].output.res)

C10_RunChecksResult ==
    \A c \in Calls :
        ChecksReturned(c) =>
            LET rc == checks_result[c] IN
            /\ (IsOk(rc) /\ rc.val) <=> AllChecksTrue(c)
            /\ FirstNotTrueIs(c, Ok(FALSE)) => (IsOk(rc) /\ ~rc.val)
            /\ \A e \in EValues :
                   FirstNotTrueIs(c, Err(e)) => (IsErr(rc) /\ rc.val = e)
            /\ AllChecksTrue(c) \/ NotTrueAt(c) # {}

\* a bare run_checks call returned an error of the second check while an
\* execute call's run_checks returned Ok(true)
C10_Witness ==
    \E c, d \in Calls :
        /\ kind[c] = "run_checks" /\ pc[c] = "done"
        /\ IsErr(checks_result[c]) /\ check_idx[c] = 1
        /\ ChecksReturned(d) /\ IsOk(checks_result[d]) /\ checks_result[d].val

\* C11: no call of execute returns state BeforeHookFailed, whatever the check
\* list, the hooks' outcomes and the handler configuration.
C11_NeverBeforeHookFailed ==
    \A c \in Calls :
        /\ state[c] # "BeforeHookFailed"
        /\ Returned(c) =>
               returned[c].state \in ExecutionState \ {"BeforeHookFailed"}

\* an execute call returned because a check refused the command, the case
\* nearest to a `before` hook refusing it
C11_Witness ==
    \E c \in Calls :
        /\ Returned(c) /\ returned[c].state = "CheckFailed"
        /\ Len(command.checks) = MaxChecks

\* ---- what the builder calls made so far say
\* the calls of one setter, in call order
CallsOfSetter(setter) == SelectSeq(history, LAMBDA h : h.setter = setter)
\* the argument of the most recent call of a setter, dflt if it was never called
LastArg(setter, dflt) ==
    LET s == CallsOfSetter(setter)
    IN  IF Len(s) = 0 THEN dflt ELSE s[Len(s)].arg
\* the most recent argument of a setter that stores Some(arg), None if never called
LastSome(setter) ==
    LET s == CallsOfSetter(setter)
    IN  IF Len(s) = 0 THEN None ELSE Some(s[Len(s)].arg)
\* the values passed to add_argument, in call order
ArgumentsPassed ==
    LET s == CallsOfSetter("add_argument")
    IN  [i \in 1 .. Len(s) |-> s[i].arg]

\* C12: after any chain of builder calls on a Command made by new, checks is
\* the list of the most recent checks() call (empty if none), error_handler
\* the hook of the most recent error_handler() call (None if none), and every
\* other field is what its own setter calls alone make it: no setter touches
\* a field that is not its own.
C12_LastWriteWins ==
    /\ command.checks = LastArg("checks", <<>>)
    /\ command.error_handler = LastSome("error_handler")
    /\ command.name = LastArg("name", "")
    /\ command.description = LastArg("description", "")
    /\ command.required_permissions = LastSome("required_permissions")
    /\ Len(command.arguments) = Len(CallsOfSetter("add_argument"))
    /\ command.fun = "fun"

\* checks() was called with a non-empty list, then error_handler(), then
\* checks() again with another list
C12_Witness ==
    /\ Len(history) = 3
    /\ history[1].setter = "checks" /\ Len(history[1].arg) = 2
    /\ history[2].setter = "error_handler"
    /\ history[3].setter = "checks" /\ Len(history[3].arg) = 1
    /\ history[3].arg[1] # history[1].arg[1]

\* C13: after any chain of builder calls, arguments is the sequence of the
\* values passed to add_argument, in call order, duplicates kept, whatever
\* other setters were called in between.
C13_ArgumentsInCallOrder ==
    command.arguments = ArgumentsPassed

\* add_argument was called twice with different values, another setter in
\* between, and the first value is still first
C13_Witness ==
    /\ Len(history) = 3
    /\ history[1].setter = "add_argument"
    /\ history[2].setter = "checks" /\ Len(history[2].arg) > 0
    /\ history[3].setter = "add_argument"
    /\ history[3].arg # history[1].arg
    /\ Len(command.arguments) = 2

\* the check invocations of call c, in the order they were made
CheckCallsSeq(c) == SelectSeq(trace[c], LAMBDA e : IsCall(e, "check"))
\* the indices of the checks call c has invoked
InvokedChecks(c) == {trace[c][j].idx : j \in Invocations(c, "check")}

\* C14: in a call, the m-th check invocation is that of the m-th check of the
\* list (declaration order, each check at most once); a check other than the
\* first is invoked right after its predecessor has returned true; and when
\* the call is over the invoked checks are the checks 0..k, k being the first
\* check that did not return true, or all of them if every check returned true.
C14_ChecksInOrder ==
    \A c \in Calls :
        /\ \A m \in 1 .. Len(CheckCallsSeq(c)) : CheckCallsSeq(c)[m].idx = m - 1
        /\ \A j \in Invocations(c, "check") :
               trace[c][j].idx > 0 =>
                   /\ j > 1
                   /\ IsRet(trace[c][j - 1], "check")
                   /\ trace[c][j - 1].idx = trace[c][j].idx - 1
                   /\ ~NotTrue(trace[c][j - 1].res)
        /\ pc[c] = "done" =>
               IF NotTrueAt(c) = {}
               THEN InvokedChecks(c) = 0 .. Len(command.checks) - 1
               ELSE \A j \in NotTrueAt(c) :
                        InvokedChecks(c) = 0 .. trace[c][j].idx

\* a call is over whose second check was invoked and did not return true,
\* while another call ran every check
C14_Witness ==
    \E c, d \in Calls :
        /\ pc[c] = "done" /\ Len(CheckCallsSeq(c)) = 2 /\ NotTrueAt(c) # {}
        /\ pc[d] = "done" /\ Len(CheckCallsSeq(d)) = 2 /\ NotTrueAt(d) = {}

\* C15: in a call of execute the hooks run in the order checks, entry point,
\* handler.  The entry point is invoked after every check event, each check of
\* the list having returned; the error handler is invoked right after a check
\* or the entry point returned the error it is given; after the handler is
\* invoked nothing else is; and execute has not returned while an invoked
\* handler has not returned.
C15_HookOrder ==
    \A c \in Calls :
        LET t == trace[c] IN
        /\ \A j \in Invocations(c, "fun") :
               /\ \A m \in DOMAIN t : t[m].hook = "check" => m < j
               /\ \A k \in 0 .. Len(command.checks) - 1 :
                      \E m \in CheckReturnsAt(c) : m < j /\ t[m].idx = k
        /\ \A j \in Invocations(c, "error_handler") :
               /\ j > 1
               /\ t[j - 1].ev = "ret"
               /\ t[j - 1].hook \in {"check", "fun"}
               /\ IsErr(t[j - 1].res)
               /\ t[j - 1].res.val = t[j].arg
               /\ \A m \in DOMAIN t :
                      m > j => (m = j + 1 /\ IsRet(t[m], "error_handler"))
               /\ j = Len(t) => (pc[c] # "done" /\ returned[c] = NotReturned)
        /\ Returned(c) /\ HandlerCalls(c) > 0 =>
               IsRet(t[Len(t)], "error_handler")

\* an execute call ran two checks, then the entry point, then the handler,
\* and returned
C15_Witness ==
    \E c \in Calls :
        /\ Returned(c) /\ HandlerCalls(c) = 1 /\ FunCalls(c) = 1
        /\ Len(CheckCallsSeq(c)) = 2
        /\ Len(trace[c]) = 8

\* ---- the calls as the scheduler drives them
\* One step of call c: the future of the call is polled up to its next await,
\* or the hook it awaits returns.
StepOf(c) ==
    \/ InvokeCheck(c)
    \/ \E r \in CheckResults : CheckReturns(c, r)
    \/ ChecksPassed(c)
    \/ \E r \in FunResults : FunReturns(c, r)
    \/ HandlerReturns(c)

\* The calls of execute alone: callers that never call run_checks directly.
NextExecute ==
    \E c \in Calls :
        \/ Execute(c)
        \/ InvokeCheck(c)
        \/ \E r \in CheckResults : CheckReturns(c, r)
        \/ ChecksPassed(c)
        \/ \E r \in FunResults : FunReturns(c, r)
        \/ HandlerReturns(c)

\* Every started call is driven on (its caller awaits it) and every hook it
\* awaits returns.
FairSpec ==
    /\ Init
    /\ [][NextExecute]_vars
    /\ \A c \in Calls : WF_vars(StepOf(c))

OutputLocations ==
    {"NotExecuted", "Present", "TakenByAfterHook", "TakenByErrorHandlerHook"}

\* C16: as long as every awaited check, entry point and handler returns,
\* every call of execute returns an ExecutionResult with state and output set.
C16_ExecuteReturns ==
    \A c \in Calls :
        (kind[c] = "execute") ~>
            (/\ Returned(c)
             /\ returned[c].state \in ExecutionState
             /\ returned[c].output.loc \in OutputLocations)

\* an execute call of the longest check list returned through the handler
\* after a check error, the longest way to a result that has no entry point
C16_Witness ==
    \E c \in Calls :
        /\ Returned(c) /\ Len(command.checks) = MaxChecks
        /\ returned[c].state = "CheckErrored"
        /\ returned[c].output = TakenByErrorHandlerHook
        /\ Len(trace[c]) = 2 * MaxChecks + 2

\* the values the hooks of call c have returned so far, in order
ReturnsOf(c) == SelectSeq(trace[c], LAMBDA e : e.ev = "ret")
\* call c stands at a suspension point of execute, or has returned
AtAwaitOrDone(c) ==
    /\ kind[c] = "execute"
    /\ pc[c] \in {"await_check", "await_fun", "await_handler_check",
                  "await_handler_fun", "done"}
\* call c has invoked the hooks, and returned the result, that execute run on
\* its own does when its hooks return the same values
SoloAgrees(c) ==
    AtAwaitOrDone(c) =>
        LET s == SoloExecute(command, ReturnsOf(c)) IN
        /\ trace[c] = s.trace
        /\ returned[c] = s.result

\* C17: however the steps of the calls interleave, after every step each call
\* of execute has invoked the hooks and returned the result it would have
\* running alone with the same hook outcomes, and no step changes the Command.
C17_CallsIndependent ==
    [][/\ command' = command
       /\ \A c \in Calls : SoloAgrees(c)']_vars

\* two execute calls in flight at once: one awaits the handler for its
\* command's error while the other, started later, awaits its second check
C17_Witness ==
    \E c, d \in Calls :
        /\ kind[c] = "execute" /\ pc[c] = "await_handler_fun"
        /\ kind[d] = "execute" /\ pc[d] = "await_check" /\ check_idx[d] = 1

\* the Command that differs from cmd in error_handler only: with a handler
\* where cmd has none, without one where cmd has one
OtherHandler(cmd) ==
    IF cmd.error_handler.some
    THEN [cmd EXCEPT !.error_handler = None]
    ELSE error_handler(cmd, "on_error")
\* what the checks and the entry point of call c returned, in order
HookReturnsOf(c) ==
    SelectSeq(trace[c], LAMBDA e : e.ev = "ret" /\ e.hook \in {"check", "fun"})
\* the invocations and returns of checks and entry point in a trace
ChecksAndFun(t) == SelectSeq(t, LAMBDA e : e.hook \in {"check", "fun"})
\* execute on the other Command, its checks and entry point returning what
\* they returned to call c, and its handler, if invoked, returning
OtherRun(c) ==
    SoloExecute(OtherHandler(command), Append(HookReturnsOf(c), RetHandler))

\* C18: when a call of execute has returned, execute on the Command that
\* differs in error_handler only, given the same check and entry-point
\* outcomes, returns too, with the same state, after the same invocations of
\* checks and entry point; the outputs differ only as Present(Err(e)) against
\* TakenByErrorHandlerHook, and only the run with a handler may invoke one.
C18_StateIgnoresHandler ==
    \A c \in Calls :
        Returned(c) =>
            LET o == OtherRun(c)
                mine == returned[c].output
                theirs == o.result.output
                withHandler == IF command.error_handler.some THEN mine ELSE theirs
                without == IF command.error_handler.some THEN theirs ELSE mine
            IN  /\ o.result.state = returned[c].state
                /\ ChecksAndFun(o.trace) = ChecksAndFun(trace[c])
                /\ \/ mine = theirs
                   \/ /\ withHandler = TakenByErrorHandlerHook
                      /\ IsPresent(without) /\ IsErr(without.res)
                /\ ~command.error_handler.some => HandlerCalls(c) = 0

\* an execute call without handler returned the error of its second check in
\* output, where the Command with a handler hands it to the handler
C18_Witness ==
    \E c \in Calls :
        /\ Returned(c) /\ ~command.error_handler.some
        /\ returned[c].state = "CheckErrored" /\ check_idx[c] = 1
        /\ OtherRun(c).result.output = TakenByErrorHandlerHook

\* C19: the (state, output) pair of every ExecutionResult execute returns is
\* one of (CheckErrored, TakenByErrorHandlerHook), (CheckErrored,
\* Present(Err)), (CheckFailed, NotExecuted), (CommandFinished, Present(Ok)),
\* (CommandErrored, TakenByErrorHandlerHook), (CommandErrored, Present(Err));
\* so output is never TakenByAfterHook and is NotExecuted with CheckFailed only.
C19_SixResults ==
    \A c \in Calls :
        Returned(c) =>
            LET s == returned[c].state
                o == returned[c].output
            IN  /\ \/ s = "CheckErrored" /\ o = TakenByErrorHandlerHook
                   \/ s = "CheckErrored" /\ IsPresent(o) /\ IsErr(o.res)
                   \/ s = "CheckFailed" /\ o = NotExecuted
                   \/ s = "CommandFinished" /\ IsPresent(o) /\ IsOk(o.res)
                   \/ s = "CommandErrored" /\ o = TakenByErrorHandlerHook
                   \/ s = "CommandErrored" /\ IsPresent(o) /\ IsErr(o.res)
                /\ o # TakenByAfterHook
                /\ o = NotExecuted => s = "CheckFailed"

\* with a handler configured, one execute call returned (CheckErrored,
\* TakenByErrorHandlerHook) and another (CommandErrored, TakenByErrorHandlerHook)
C19_Witness ==
    \E c, d \in Calls :
        /\ Returned(c) /\ returned[c].state = "CheckErrored"
        /\ returned[c].output = TakenByErrorHandlerHook
        /\ Returned(d) /\ returned[d].state = "CommandErrored"
        /\ returned[d].output = TakenByErrorHandlerHook

====
